---- MODULE Spec2Model ----
(***************************************************************************)
(* Material parameter reconciliation of src/material.rs.                   *)
(*                                                                         *)
(* A ParamId is modelled as the pair <<family name, slot number>> of the   *)
(* enum variant (ParamId::CustomVector13 is <<"CustomVector", 13>>).  A    *)
(* parameter is a record [param_id, data]; a MatlEntryData is a record of  *)
(* two labels and seven sequences of parameters.  Parameter data are       *)
(* modelled as strings naming the value.                                   *)
(*                                                                         *)
(* The bone list of src/editors/skel.rs is the variable skel: a sequence   *)
(* of records [name, parent_index], an Option<usize> being <<>> for None   *)
(* and <<i>> for Some(i), with i counted from 0 as in the source.  The     *)
(* variable stack holds the frames of edit_bones_hierarchy and of the      *)
(* calls of display_bones_recursive below it, the innermost one last.      *)
(***************************************************************************)
EXTENDS Integers, Sequences, FiniteSets, TLC

VARIABLES entry, program, preset, op, parameters, before, result, param, skel,
          stack

vars ==
    <<entry, program, preset, op, parameters, before, result, param, skel, stack>>

\* ------------------------------------------------------------------ bounds
\* Largest number of parameters (over all seven collections) of an entry.
MaxEntry == 2
\* Longest id list passed to add_parameters / remove_parameters.
MaxParameters == 2
\* Longest material_parameters list of a shader program.
MaxProgram == 2
\* Longest texture list of the entry and of the preset given to apply_preset.
MaxTextures == 2
\* Most parameters of an entry that remove_parameters alone is applied to.
MaxStored == 3
\* Most bones of a skeleton.
MaxBones == 3

\* ------------------------------------------------------------- ParamId
ParamId(f, n) == <<f, n>>

\* The ids of the seven families handled by material.rs.
BlendIds == {ParamId("BlendState", n) : n \in 0..10}
RasterizerIds == {ParamId("RasterizerState", n) : n \in 0..10}
FloatIds == {ParamId("CustomFloat", n) : n \in 0..19}
BoolIds == {ParamId("CustomBoolean", n) : n \in 0..19}
VectorIds == {ParamId("CustomVector", n) : n \in 0..63}
SamplerIds == {ParamId("Sampler", n) : n \in 0..19}
TextureIds == {ParamId("Texture", n) : n \in 0..19}

\* Variants of the ParamId enum that none of the is_* functions lists.
OtherIds ==
    {ParamId("Diffuse", 0)} \cup {ParamId("CustomInteger", n) : n \in 0..19}
        \cup {ParamId("UvTransform", n) : n \in 0..15}

AllParamIds ==
    BlendIds \cup RasterizerIds \cup FloatIds \cup BoolIds \cup VectorIds
        \cup SamplerIds \cup TextureIds \cup OtherIds

\* `param_id as u64`: the discriminant of the variant in the ParamId enum of
\* the ssbh library.  Slots of one family are numbered in increasing order;
\* of the later-added slots (CustomVector20.., Texture16.., Sampler16..) only
\* the order is modelled: they come after every older variant.
AsU64(p) ==
    CASE p[1] = "Diffuse" -> 0
      [] p[1] = "Texture" -> IF p[2] < 16 THEN 92 + p[2] ELSE 357 + p[2]
      [] p[1] = "Sampler" -> IF p[2] < 16 THEN 108 + p[2] ELSE 361 + p[2]
      [] p[1] = "CustomVector" -> IF p[2] < 20 THEN 152 + p[2] ELSE 296 + p[2]
      [] p[1] = "CustomFloat" -> 192 + p[2]
      [] p[1] = "CustomInteger" -> 212 + p[2]
      [] p[1] = "CustomBoolean" -> 232 + p[2]
      [] p[1] = "UvTransform" -> 252 + p[2]
      [] p[1] = "BlendState" -> 280 + p[2]
      [] p[1] = "RasterizerState" -> 291 + p[2]

\* ---------------------------------------------------------- classifiers
is_vector(p) == p[1] = "CustomVector" /\ p[2] \in 0..63

is_rasterizer(p) == p[1] = "RasterizerState" /\ p[2] \in 0..10

is_blend(p) == p[1] = "BlendState" /\ p[2] \in 0..10

\* is_float with one CustomVector variant pasted into its list.
is_float_WithVector(p) ==
    \/ p[1] = "CustomFloat" /\ p[2] \in 0..19
    \/ p = ParamId("CustomVector", 0)

is_float(p) == p[1] = "CustomFloat" /\ p[2] \in 0..19

is_texture(p) == p[1] = "Texture" /\ p[2] \in 0..19

is_sampler(p) == p[1] = "Sampler" /\ p[2] \in 0..19

is_bool(p) == p[1] = "CustomBoolean" /\ p[2] \in 0..19

\* The table of default_texture with the arm of Texture14 left to the
\* wildcard arm.
default_texture_White14(p) ==
    IF p \in {ParamId("Texture", 2), ParamId("Texture", 7), ParamId("Texture", 8)}
    THEN "#replace_cubemap"
    ELSE IF p = ParamId("Texture", 4)
    THEN "/common/shader/sfxpbs/fighter/default_normal"
    ELSE IF p = ParamId("Texture", 6)
    THEN "/common/shader/sfxpbs/fighter/default_params"
    ELSE IF p \in {ParamId("Texture", 5), ParamId("Texture", 9)}
    THEN "/common/shader/sfxpbs/default_black"
    ELSE "/common/shader/sfxpbs/default_white"

default_texture(p) ==
    CASE p = ParamId("Texture", 0) -> "/common/shader/sfxpbs/default_white"
      [] p = ParamId("Texture", 1) -> "/common/shader/sfxpbs/default_white"
      [] p = ParamId("Texture", 2) -> "#replace_cubemap"
      [] p = ParamId("Texture", 3) -> "/common/shader/sfxpbs/default_white"
      [] p = ParamId("Texture", 4) -> "/common/shader/sfxpbs/fighter/default_normal"
      [] p = ParamId("Texture", 5) -> "/common/shader/sfxpbs/default_black"
      [] p = ParamId("Texture", 6) -> "/common/shader/sfxpbs/fighter/default_params"
      [] p = ParamId("Texture", 7) -> "#replace_cubemap"
      [] p = ParamId("Texture", 8) -> "#replace_cubemap"
      [] p = ParamId("Texture", 9) -> "/common/shader/sfxpbs/default_black"
      [] p = ParamId("Texture", 14) -> "/common/shader/sfxpbs/default_black"
      [] OTHER -> "/common/shader/sfxpbs/default_white"

\* ------------------------------------------------------ parameter values
Param(id, data) == [param_id |-> id, data |-> data]

BlendStateDataDefault == "BlendStateData::default()"
RasterizerStateDataDefault == "RasterizerStateData::default()"
SamplerDataDefault == "SamplerData::default()"
FloatDefault == "0.0"
BooleanDefault == "false"
Vector4Default == "Vector4(0.0, 0.0, 0.0, 0.0)"

\* The seven collections of MatlEntryData, in declaration order.
Collections ==
    {"blend_states", "floats", "booleans", "vectors", "rasterizer_states",
     "samplers", "textures"}

MatlEntryData(ml, sl, bs, fl, bo, ve, rs, sa, te) ==
    [material_label |-> ml, shader_label |-> sl, blend_states |-> bs,
     floats |-> fl, booleans |-> bo, vectors |-> ve,
     rasterizer_states |-> rs, samplers |-> sa, textures |-> te]

\* ------------------------------------------------------- Vec operations
\* Vec::push
Push(s, x) == Append(s, x)

\* iter().position(|p| p.param_id == id): first index, 0 for None.
Position(s, id) ==
    IF \E i \in 1..Len(s) : s[i].param_id = id
    THEN CHOOSE i \in 1..Len(s) :
             /\ s[i].param_id = id
             /\ \A j \in 1..(i - 1) : s[j].param_id # id
    ELSE 0

\* A removal that overwrites the element but does not shorten the Vec.
SwapRemove_NoPop(s, i) == [s EXCEPT ![i] = s[Len(s)]]

\* Vec::pop in the place of swap_remove(i): the last element goes.
SwapRemove_PopOnly(s, i) == SubSeq(s, 1, Len(s) - 1)

\* Vec::swap_remove(index): the last element takes the removed one's place.
SwapRemove(s, i) ==
    IF i = Len(s)
    THEN SubSeq(s, 1, Len(s) - 1)
    ELSE [SubSeq(s, 1, Len(s) - 1) EXCEPT ![i] = s[Len(s)]]

\* Insert x behind every element whose key is not greater than x's key.
InsertByKey(s, x) ==
    LET k == Cardinality({i \in 1..Len(s) :
                              AsU64(s[i].param_id) <= AsU64(x.param_id)})
    IN SubSeq(s, 1, k) \o <<x>> \o SubSeq(s, k + 1, Len(s))

RECURSIVE SortByKey(_)
\* sort_by_key(|p| p.param_id as u64): a stable sort.
SortByKey(s) ==
    IF s = <<>> THEN <<>>
    ELSE InsertByKey(SortByKey(SubSeq(s, 1, Len(s) - 1)), s[Len(s)])

\* The trailing sorts with the one of floats left out.
SortAll_NoFloats(e) ==
    [e EXCEPT !.blend_states = SortByKey(@),
              !.booleans = SortByKey(@),
              !.vectors = SortByKey(@),
              !.rasterizer_states = SortByKey(@),
              !.samplers = SortByKey(@),
              !.textures = SortByKey(@)]

\* The sorted collections put into a fresh entry
\* (MatlEntryData { .., ..Default::default() }), losing both labels.
SortAll_DefaultLabels(e) ==
    MatlEntryData("", "",
                  SortByKey(e.blend_states), SortByKey(e.floats),
                  SortByKey(e.booleans), SortByKey(e.vectors),
                  SortByKey(e.rasterizer_states), SortByKey(e.samplers),
                  SortByKey(e.textures))

\* The trailing sorts with the one of vectors left out.
SortAll_NoVectors(e) ==
    [e EXCEPT !.blend_states = SortByKey(@),
              !.floats = SortByKey(@),
              !.booleans = SortByKey(@),
              !.rasterizer_states = SortByKey(@),
              !.samplers = SortByKey(@),
              !.textures = SortByKey(@)]

\* The seven trailing sort_by_key calls of add_parameters/remove_parameters.
SortAll(e) ==
    [e EXCEPT !.blend_states = SortByKey(@),
              !.floats = SortByKey(@),
              !.booleans = SortByKey(@),
              !.vectors = SortByKey(@),
              !.rasterizer_states = SortByKey(@),
              !.samplers = SortByKey(@),
              !.textures = SortByKey(@)]

\* ------------------------------------------------------------ operations
\* map(|p| p.param_id) over one collection.
Ids(s) == [i \in 1..Len(s) |-> s[i].param_id]

\* The chain without the rasterizer states.
ChainedIds_NoRasterizer(e) ==
    Ids(e.booleans) \o Ids(e.floats) \o Ids(e.vectors) \o Ids(e.textures)
        \o Ids(e.samplers) \o Ids(e.blend_states)

\* The chain in the order blend, float, bool, vector, texture, sampler,
\* rasterizer.
ChainedIds_BlendFirst(e) ==
    Ids(e.blend_states) \o Ids(e.floats) \o Ids(e.booleans) \o Ids(e.vectors)
        \o Ids(e.textures) \o Ids(e.samplers) \o Ids(e.rasterizer_states)

\* The chain of the ids of the entry, as missing_parameters and
\* unused_parameters build it.
ChainedIds(e) ==
    Ids(e.booleans) \o Ids(e.floats) \o Ids(e.vectors) \o Ids(e.textures)
        \o Ids(e.samplers) \o Ids(e.blend_states) \o Ids(e.rasterizer_states)

\* iter().any(|p| &p == id) / Vec::contains
Contains(s, id) == \E i \in 1..Len(s) : s[i] = id

missing_parameters(e, prog) ==
    SelectSeq(prog, LAMBDA id : ~Contains(ChainedIds(e), id))

\* unused_parameters starting at the second element of the chain
\* (.skip(1)).
unused_parameters_SkipFirst(e, prog) ==
    LET unused == SelectSeq(ChainedIds(e), LAMBDA id : ~Contains(prog, id))
    IN IF unused = <<>> THEN <<>> ELSE Tail(unused)

\* unused_parameters without its filter: every id of the entry.
unused_parameters_NoFilter(e, prog) == ChainedIds(e)

unused_parameters(e, prog) ==
    SelectSeq(ChainedIds(e), LAMBDA id : ~Contains(prog, id))

\* add_parameters without its sampler branch.
AddOne_NoSampler(e, id) ==
    IF is_blend(id)
    THEN [e EXCEPT !.blend_states = Push(@, Param(id, BlendStateDataDefault))]
    ELSE IF is_float(id)
    THEN [e EXCEPT !.floats = Push(@, Param(id, FloatDefault))]
    ELSE IF is_bool(id)
    THEN [e EXCEPT !.booleans = Push(@, Param(id, BooleanDefault))]
    ELSE IF is_vector(id)
    THEN [e EXCEPT !.vectors = Push(@, Param(id, Vector4Default))]
    ELSE IF is_rasterizer(id)
    THEN [e EXCEPT !.rasterizer_states =
                       Push(@, Param(id, RasterizerStateDataDefault))]
    ELSE IF is_texture(id)
    THEN [e EXCEPT !.textures = Push(@, Param(id, default_texture(id)))]
    ELSE e

\* add_parameters giving every texture the path of Texture0.
AddOne_WhiteTexture(e, id) ==
    IF is_blend(id)
    THEN [e EXCEPT !.blend_states = Push(@, Param(id, BlendStateDataDefault))]
    ELSE IF is_float(id)
    THEN [e EXCEPT !.floats = Push(@, Param(id, FloatDefault))]
    ELSE IF is_bool(id)
    THEN [e EXCEPT !.booleans = Push(@, Param(id, BooleanDefault))]
    ELSE IF is_vector(id)
    THEN [e EXCEPT !.vectors = Push(@, Param(id, Vector4Default))]
    ELSE IF is_rasterizer(id)
    THEN [e EXCEPT !.rasterizer_states =
                       Push(@, Param(id, RasterizerStateDataDefault))]
    ELSE IF is_sampler(id)
    THEN [e EXCEPT !.samplers = Push(@, Param(id, SamplerDataDefault))]
    ELSE IF is_texture(id)
    THEN [e EXCEPT !.textures =
                       Push(@, Param(id, default_texture(ParamId("Texture", 0))))]
    ELSE e

\* add_parameters with a final else in place of the is_texture test.
AddOne_ElseTexture(e, id) ==
    IF is_blend(id)
    THEN [e EXCEPT !.blend_states = Push(@, Param(id, BlendStateDataDefault))]
    ELSE IF is_float(id)
    THEN [e EXCEPT !.floats = Push(@, Param(id, FloatDefault))]
    ELSE IF is_bool(id)
    THEN [e EXCEPT !.booleans = Push(@, Param(id, BooleanDefault))]
    ELSE IF is_vector(id)
    THEN [e EXCEPT !.vectors = Push(@, Param(id, Vector4Default))]
    ELSE IF is_rasterizer(id)
    THEN [e EXCEPT !.rasterizer_states =
                       Push(@, Param(id, RasterizerStateDataDefault))]
    ELSE IF is_sampler(id)
    THEN [e EXCEPT !.samplers = Push(@, Param(id, SamplerDataDefault))]
    ELSE [e EXCEPT !.textures = Push(@, Param(id, default_texture(id)))]

\* One iteration of the loop of add_parameters.
AddOne(e, id) ==
    IF is_blend(id)
    THEN [e EXCEPT !.blend_states = Push(@, Param(id, BlendStateDataDefault))]
    ELSE IF is_float(id)
    THEN [e EXCEPT !.floats = Push(@, Param(id, FloatDefault))]
    ELSE IF is_bool(id)
    THEN [e EXCEPT !.booleans = Push(@, Param(id, BooleanDefault))]
    ELSE IF is_vector(id)
    THEN [e EXCEPT !.vectors = Push(@, Param(id, Vector4Default))]
    ELSE IF is_rasterizer(id)
    THEN [e EXCEPT !.rasterizer_states =
                       Push(@, Param(id, RasterizerStateDataDefault))]
    ELSE IF is_sampler(id)
    THEN [e EXCEPT !.samplers = Push(@, Param(id, SamplerDataDefault))]
    ELSE IF is_texture(id)
    THEN [e EXCEPT !.textures = Push(@, Param(id, default_texture(id)))]
    ELSE e

RECURSIVE AddLoop(_, _)
AddLoop(e, ids) ==
    IF ids = <<>> THEN e ELSE AddLoop(AddOne(e, Head(ids)), Tail(ids))

add_parameters(e, ids) == SortAll(AddLoop(e, ids))

\* remove_parameters without its texture branch.
RemoveOne_NoTextures(e, id) ==
    IF Position(e.blend_states, id) # 0
    THEN [e EXCEPT !.blend_states = SwapRemove(@, Position(@, id))]
    ELSE IF Position(e.floats, id) # 0
    THEN [e EXCEPT !.floats = SwapRemove(@, Position(@, id))]
    ELSE IF Position(e.booleans, id) # 0
    THEN [e EXCEPT !.booleans = SwapRemove(@, Position(@, id))]
    ELSE IF Position(e.vectors, id) # 0
    THEN [e EXCEPT !.vectors = SwapRemove(@, Position(@, id))]
    ELSE IF Position(e.rasterizer_states, id) # 0
    THEN [e EXCEPT !.rasterizer_states = SwapRemove(@, Position(@, id))]
    ELSE IF Position(e.samplers, id) # 0
    THEN [e EXCEPT !.samplers = SwapRemove(@, Position(@, id))]
    ELSE e

\* remove_parameters taking index 0 of the textures when no collection holds
\* the id (position(..).unwrap_or(0)).
RemoveOne_UnwrapOrZero(e, id) ==
    IF Position(e.blend_states, id) # 0
    THEN [e EXCEPT !.blend_states = SwapRemove(@, Position(@, id))]
    ELSE IF Position(e.floats, id) # 0
    THEN [e EXCEPT !.floats = SwapRemove(@, Position(@, id))]
    ELSE IF Position(e.booleans, id) # 0
    THEN [e EXCEPT !.booleans = SwapRemove(@, Position(@, id))]
    ELSE IF Position(e.vectors, id) # 0
    THEN [e EXCEPT !.vectors = SwapRemove(@, Position(@, id))]
    ELSE IF Position(e.rasterizer_states, id) # 0
    THEN [e EXCEPT !.rasterizer_states = SwapRemove(@, Position(@, id))]
    ELSE IF Position(e.samplers, id) # 0
    THEN [e EXCEPT !.samplers = SwapRemove(@, Position(@, id))]
    ELSE IF e.textures # <<>>
    THEN [e EXCEPT !.textures =
                       SwapRemove(@, IF Position(@, id) # 0
                                     THEN Position(@, id) ELSE 1)]
    ELSE e

\* remove_parameters searching the booleans before the floats.
RemoveOne_BoolBeforeFloat(e, id) ==
    IF Position(e.blend_states, id) # 0
    THEN [e EXCEPT !.blend_states = SwapRemove(@, Position(@, id))]
    ELSE IF Position(e.booleans, id) # 0
    THEN [e EXCEPT !.booleans = SwapRemove(@, Position(@, id))]
    ELSE IF Position(e.floats, id) # 0
    THEN [e EXCEPT !.floats = SwapRemove(@, Position(@, id))]
    ELSE IF Position(e.vectors, id) # 0
    THEN [e EXCEPT !.vectors = SwapRemove(@, Position(@, id))]
    ELSE IF Position(e.rasterizer_states, id) # 0
    THEN [e EXCEPT !.rasterizer_states = SwapRemove(@, Position(@, id))]
    ELSE IF Position(e.samplers, id) # 0
    THEN [e EXCEPT !.samplers = SwapRemove(@, Position(@, id))]
    ELSE IF Position(e.textures, id) # 0
    THEN [e EXCEPT !.textures = SwapRemove(@, Position(@, id))]
    ELSE e

\* One iteration of the loop of remove_parameters.
RemoveOne(e, id) ==
    IF Position(e.blend_states, id) # 0
    THEN [e EXCEPT !.blend_states = SwapRemove(@, Position(@, id))]
    ELSE IF Position(e.floats, id) # 0
    THEN [e EXCEPT !.floats = SwapRemove(@, Position(@, id))]
    ELSE IF Position(e.booleans, id) # 0
    THEN [e EXCEPT !.booleans = SwapRemove(@, Position(@, id))]
    ELSE IF Position(e.vectors, id) # 0
    THEN [e EXCEPT !.vectors = SwapRemove(@, Position(@, id))]
    ELSE IF Position(e.rasterizer_states, id) # 0
    THEN [e EXCEPT !.rasterizer_states = SwapRemove(@, Position(@, id))]
    ELSE IF Position(e.samplers, id) # 0
    THEN [e EXCEPT !.samplers = SwapRemove(@, Position(@, id))]
    ELSE IF Position(e.textures, id) # 0
    THEN [e EXCEPT !.textures = SwapRemove(@, Position(@, id))]
    ELSE e

RECURSIVE RemoveLoop(_, _)
RemoveLoop(e, ids) ==
    IF ids = <<>> THEN e ELSE RemoveLoop(RemoveOne(e, Head(ids)), Tail(ids))

\* remove_parameters passing over the first id of its list (.skip(1)).
remove_parameters_SkipFirst(e, ids) ==
    SortAll(RemoveLoop(e, IF ids = <<>> THEN <<>> ELSE Tail(ids)))

remove_parameters(e, ids) == SortAll(RemoveLoop(e, ids))

\* default_material with CustomVector8 all zeros like CustomVector0.
default_material_ZeroVector8 ==
    MatlEntryData(
        "NEW_MATERIAL",
        "SFX_PBS_0100000008008269_opaque",
        <<Param(ParamId("BlendState", 0), BlendStateDataDefault)>>,
        <<Param(ParamId("CustomFloat", 8), "0.4")>>,
        <<Param(ParamId("CustomBoolean", 1), "true"),
          Param(ParamId("CustomBoolean", 3), "true"),
          Param(ParamId("CustomBoolean", 4), "true")>>,
        <<Param(ParamId("CustomVector", 0), "Vector4(0.0, 0.0, 0.0, 0.0)"),
          Param(ParamId("CustomVector", 13), "Vector4(1.0, 1.0, 1.0, 1.0)"),
          Param(ParamId("CustomVector", 14), "Vector4(1.0, 1.0, 1.0, 1.0)"),
          Param(ParamId("CustomVector", 8), "Vector4(0.0, 0.0, 0.0, 0.0)")>>,
        <<Param(ParamId("RasterizerState", 0), RasterizerStateDataDefault)>>,
        <<Param(ParamId("Sampler", 0), SamplerDataDefault),
          Param(ParamId("Sampler", 4), SamplerDataDefault),
          Param(ParamId("Sampler", 6), SamplerDataDefault),
          Param(ParamId("Sampler", 7), SamplerDataDefault)>>,
        <<Param(ParamId("Texture", 0), default_texture(ParamId("Texture", 0))),
          Param(ParamId("Texture", 4), default_texture(ParamId("Texture", 4))),
          Param(ParamId("Texture", 6), default_texture(ParamId("Texture", 6))),
          Param(ParamId("Texture", 7), default_texture(ParamId("Texture", 7)))>>)

\* default_material(): the entry of a new material.
default_material ==
    MatlEntryData(
        "NEW_MATERIAL",
        "SFX_PBS_0100000008008269_opaque",
        <<Param(ParamId("BlendState", 0), BlendStateDataDefault)>>,
        <<Param(ParamId("CustomFloat", 8), "0.4")>>,
        <<Param(ParamId("CustomBoolean", 1), "true"),
          Param(ParamId("CustomBoolean", 3), "true"),
          Param(ParamId("CustomBoolean", 4), "true")>>,
        <<Param(ParamId("CustomVector", 0), "Vector4(0.0, 0.0, 0.0, 0.0)"),
          Param(ParamId("CustomVector", 13), "Vector4(1.0, 1.0, 1.0, 1.0)"),
          Param(ParamId("CustomVector", 14), "Vector4(1.0, 1.0, 1.0, 1.0)"),
          Param(ParamId("CustomVector", 8), "Vector4(1.0, 1.0, 1.0, 1.0)")>>,
        <<Param(ParamId("RasterizerState", 0), RasterizerStateDataDefault)>>,
        <<Param(ParamId("Sampler", 0), SamplerDataDefault),
          Param(ParamId("Sampler", 4), SamplerDataDefault),
          Param(ParamId("Sampler", 6), SamplerDataDefault),
          Param(ParamId("Sampler", 7), SamplerDataDefault)>>,
        <<Param(ParamId("Texture", 0), default_texture(ParamId("Texture", 0))),
          Param(ParamId("Texture", 4), default_texture(ParamId("Texture", 4))),
          Param(ParamId("Texture", 6), default_texture(ParamId("Texture", 6))),
          Param(ParamId("Texture", 7), default_texture(ParamId("Texture", 7)))>>)

\* The preset's own path instead of the default one.
PresetTexture_PresetPath(e, preset_texture) ==
    LET i == Position(e.textures, preset_texture.param_id)
    IN Param(preset_texture.param_id,
             IF i # 0 THEN e.textures[i].data ELSE preset_texture.data)

\* The texture of the result of apply_preset for one texture of the preset.
PresetTexture(e, preset_texture) ==
    LET i == Position(e.textures, preset_texture.param_id)
    IN Param(preset_texture.param_id,
             IF i # 0 THEN e.textures[i].data
             ELSE default_texture(preset_texture.param_id))

\* apply_preset preserving the shader label along with the material label.
apply_preset_KeepShader(e, pre) ==
    [pre EXCEPT !.material_label = e.material_label,
                !.shader_label = e.shader_label,
                !.textures = [i \in 1..Len(pre.textures) |->
                                  PresetTexture(e, pre.textures[i])]]

\* apply_preset keeping the textures of the entry behind those of the preset.
apply_preset_KeepEntryTextures(e, pre) ==
    [pre EXCEPT !.material_label = e.material_label,
                !.textures = [i \in 1..Len(pre.textures) |->
                                  PresetTexture(e, pre.textures[i])]
                             \o e.textures]

apply_preset(e, pre) ==
    [pre EXCEPT !.material_label = e.material_label,
                !.textures = [i \in 1..Len(pre.textures) |->
                                  PresetTexture(e, pre.textures[i])]]

\* ------------------------------------------------------- bounded inputs
\* All sequences over S of length at most n.
SeqsUpTo(S, n) == UNION {[1..k -> S] : k \in 0..n}

\* The ids the reconciliation runs are explored with: one id of every
\* family and an id of no family.
ModelIds ==
    {ParamId("BlendState", 0), ParamId("CustomFloat", 0),
     ParamId("CustomBoolean", 0),
     ParamId("CustomVector", 0), ParamId("RasterizerState", 0),
     ParamId("Sampler", 0), ParamId("Texture", 4), ParamId("Diffuse", 0)}

\* The material_parameters lists of the shader programs.
Programs == SeqsUpTo(ModelIds, MaxProgram)

\* The id lists given to add_parameters and remove_parameters.
ParameterLists == SeqsUpTo(ModelIds, MaxParameters)

\* Where a parameter of a loaded document may sit: every id in the
\* collection of its family, and a boolean id and the id of no family among
\* the floats (the collection is chosen by the data type of the parameter in
\* the file, not by its id).
StoredParams ==
    {<<"blend_states", ParamId("BlendState", 0)>>,
     <<"floats", ParamId("CustomFloat", 0)>>,
     <<"booleans", ParamId("CustomBoolean", 0)>>,
     <<"vectors", ParamId("CustomVector", 0)>>,
     <<"rasterizer_states", ParamId("RasterizerState", 0)>>,
     <<"samplers", ParamId("Sampler", 0)>>,
     <<"textures", ParamId("Texture", 4)>>,
     <<"floats", ParamId("CustomBoolean", 0)>>,
     <<"floats", ParamId("Diffuse", 0)>>}

\* A value other than the default that add_parameters gives.
StoredData(c) ==
    CASE c = "blend_states" -> "BlendStateData{alpha}"
      [] c = "floats" -> "0.4"
      [] c = "booleans" -> "true"
      [] c = "vectors" -> "Vector4(1.0, 1.0, 1.0, 1.0)"
      [] c = "rasterizer_states" -> "RasterizerStateData{wireframe}"
      [] c = "samplers" -> "SamplerData{repeat}"
      [] c = "textures" -> "a"

EmptyEntry(ml, sl) ==
    MatlEntryData(ml, sl, <<>>, <<>>, <<>>, <<>>, <<>>, <<>>, <<>>)

RECURSIVE Stored(_, _)
\* The entry holding the parameters of the list ps, in that order.
Stored(e, ps) ==
    IF ps = <<>> THEN e
    ELSE LET c == Head(ps)[1]
             x == Param(Head(ps)[2], StoredData(c))
         IN Stored([e EXCEPT ![c] = Push(@, x)], Tail(ps))

ModelEntries ==
    {Stored(EmptyEntry("material", "shader"), ps) :
         ps \in SeqsUpTo(StoredParams, MaxEntry)}

\* Number of parameters of an entry.
Size(e) ==
    Len(e.blend_states) + Len(e.floats) + Len(e.booleans) + Len(e.vectors)
        + Len(e.rasterizer_states) + Len(e.samplers) + Len(e.textures)

\* ----------------------------------------------- reconciliation machine
\* The state is the entry the caller owns and the record of the call that
\* has just returned: its name (op), its arguments (program, parameters), the
\* entry before it (before) and the list it returned (result).  The caller
\* makes its next call once the arguments and the returned list of the last
\* one are dropped (op = "idle").
NoParam == ParamId("Diffuse", 0)

Init ==
    /\ entry \in ModelEntries
    /\ program = <<>>
    /\ preset = EmptyEntry("", "")
    /\ op = "idle"
    /\ parameters = <<>>
    /\ before = entry
    /\ result = <<>>
    /\ param = NoParam
    /\ skel = <<>>
    /\ stack = <<>>

MissingParameters ==
    /\ op = "idle"
    /\ \E prog \in Programs :
        /\ op' = "missing_parameters"
        /\ program' = prog
        /\ parameters' = <<>>
        /\ before' = entry
        /\ result' = missing_parameters(entry, prog)
        /\ UNCHANGED <<stack, skel, entry, preset, param>>

\* unused_parameters draining what it reports out of the entry.
UnusedParameters_Draining ==
    /\ op = "idle"
    /\ \E prog \in Programs :
        /\ op' = "unused_parameters"
        /\ program' = prog
        /\ parameters' = <<>>
        /\ before' = entry
        /\ result' = unused_parameters(entry, prog)
        /\ entry' = RemoveLoop(entry, unused_parameters(entry, prog))
        /\ UNCHANGED <<stack, skel, preset, param>>

UnusedParameters ==
    /\ op = "idle"
    /\ \E prog \in Programs :
        /\ op' = "unused_parameters"
        /\ program' = prog
        /\ parameters' = <<>>
        /\ before' = entry
        /\ result' = unused_parameters(entry, prog)
        /\ UNCHANGED <<stack, skel, entry, preset, param>>

AddParameters ==
    /\ op = "idle"
    /\ \E ids \in ParameterLists :
        /\ Size(entry) + Len(ids) <= MaxEntry
        /\ op' = "add_parameters"
        /\ program' = <<>>
        /\ parameters' = ids
        /\ before' = entry
        /\ result' = <<>>
        /\ entry' = add_parameters(entry, ids)
        /\ UNCHANGED <<stack, skel, preset, param>>

RemoveParameters ==
    /\ op = "idle"
    /\ \E ids \in ParameterLists :
        /\ op' = "remove_parameters"
        /\ program' = <<>>
        /\ parameters' = ids
        /\ before' = entry
        /\ result' = <<>>
        /\ entry' = remove_parameters(entry, ids)
        /\ UNCHANGED <<stack, skel, preset, param>>

\* The caller replaces its entry by default_material().
NewMaterial ==
    /\ op = "idle"
    /\ op' = "default_material"
    /\ program' = <<>>
    /\ parameters' = <<>>
    /\ before' = entry
    /\ result' = <<>>
    /\ entry' = default_material
    /\ UNCHANGED <<stack, skel, preset, param>>

\* missing_parameters followed by add_parameters with the list it returned.
AddMissing ==
    /\ op = "idle"
    /\ \E prog \in Programs :
        LET required_parameters == missing_parameters(entry, prog)
        IN /\ Size(entry) + Len(required_parameters) <= MaxEntry
           /\ op' = "add_missing"
           /\ program' = prog
           /\ parameters' = required_parameters
           /\ before' = entry
           /\ result' = required_parameters
           /\ entry' = add_parameters(entry, required_parameters)
           /\ UNCHANGED <<stack, skel, preset, param>>

\* unused_parameters followed by remove_parameters with the list it returned.
RemoveUnused ==
    /\ op = "idle"
    /\ \E prog \in Programs :
        LET unused == unused_parameters(entry, prog)
        IN /\ op' = "remove_unused"
           /\ program' = prog
           /\ parameters' = unused
           /\ before' = entry
           /\ result' = unused
           /\ entry' = remove_parameters(entry, unused)
           /\ UNCHANGED <<stack, skel, preset, param>>

\* The borrows of the last call end and its returned Vec is dropped.
Return ==
    /\ op \in {"missing_parameters", "unused_parameters", "add_parameters",
               "remove_parameters", "add_missing", "remove_unused",
               "apply_preset", "classify", "default_texture",
               "default_material", "move_bone", "match_skel_order",
               "edit_bones_hierarchy"}
    /\ stack = <<>>
    /\ op' = "idle"
    /\ program' = <<>>
    /\ parameters' = <<>>
    /\ before' = entry
    /\ result' = <<>>
    /\ UNCHANGED <<stack, skel, entry, preset, param>>

\* The calls that change the entry, with any id list.
Next ==
    \/ AddParameters
    \/ RemoveParameters
    \/ NewMaterial
    \/ Return

Spec == Init /\ [][Next]_vars

\* The calls that change the entry, with the list a query returned.
NextReconcile ==
    \/ AddMissing
    \/ RemoveUnused
    \/ Return

SpecReconcile == Init /\ [][NextReconcile]_vars

\* The calls that only read the entry.
NextQuery ==
    \/ MissingParameters
    \/ UnusedParameters
    \/ Return

SpecQuery == Init /\ [][NextQuery]_vars

\* -------------------------------------------------------- preset machine
\* Texture parameters of the entries and presets given to apply_preset.
PresetTextureIds ==
    {ParamId("Texture", 0), ParamId("Texture", 1), ParamId("Texture", 4)}

EntryTextures == {Param(id, d) : id \in PresetTextureIds, d \in {"a", "b"}}

PresetTextures == {Param(id, d) : id \in PresetTextureIds, d \in {"d", "a"}}

\* The parameters of the six other collections of an entry given to
\* apply_preset: none, or one parameter in each collection.
EntryParams(ml, sl, te) ==
    {EmptyEntry(ml, sl),
     MatlEntryData(ml, sl,
         <<Param(ParamId("BlendState", 0), StoredData("blend_states"))>>,
         <<Param(ParamId("CustomFloat", 8), StoredData("floats"))>>,
         <<Param(ParamId("CustomBoolean", 1), StoredData("booleans"))>>,
         <<Param(ParamId("CustomVector", 13), StoredData("vectors"))>>,
         <<Param(ParamId("RasterizerState", 0),
                 StoredData("rasterizer_states"))>>,
         <<Param(ParamId("Sampler", 4), StoredData("samplers"))>>,
         te)}

\* The parameters of the six other collections of a preset: those of the
\* preset of tests::apply_preset_empty_material, or none.
PresetParams(ml, sl, te) ==
    {EmptyEntry(ml, sl),
     MatlEntryData(ml, sl,
         <<Param(ParamId("BlendState", 0), BlendStateDataDefault)>>,
         <<Param(ParamId("CustomFloat", 0), FloatDefault)>>,
         <<Param(ParamId("CustomBoolean", 0), BooleanDefault)>>,
         <<Param(ParamId("CustomVector", 0), Vector4Default)>>,
         <<Param(ParamId("RasterizerState", 0), RasterizerStateDataDefault)>>,
         <<Param(ParamId("Sampler", 0), SamplerDataDefault),
           Param(ParamId("Sampler", 1), SamplerDataDefault)>>,
         te)}

PresetModelEntries ==
    {[e EXCEPT !.textures = te] :
         e \in EntryParams("material", "123", <<>>),
         te \in SeqsUpTo(EntryTextures, MaxTextures)}

ModelPresets ==
    {[e EXCEPT !.textures = te] :
         e \in PresetParams("preset", "456", <<>>),
         te \in SeqsUpTo(PresetTextures, MaxTextures)}

InitPreset ==
    /\ entry \in PresetModelEntries
    /\ program = <<>>
    /\ preset = EmptyEntry("", "")
    /\ op = "idle"
    /\ parameters = <<>>
    /\ before = entry
    /\ result = <<>>
    /\ param = NoParam
    /\ skel = <<>>
    /\ stack = <<>>

\* entry = apply_preset(&entry, &preset)
ApplyPreset ==
    /\ op = "idle"
    /\ \E pre \in ModelPresets :
        /\ op' = "apply_preset"
        /\ preset' = pre
        /\ before' = entry
        /\ entry' = apply_preset(entry, pre)
        /\ UNCHANGED <<stack, skel, program, parameters, result, param>>

NextPreset == ApplyPreset \/ Return

SpecPreset == InitPreset /\ [][NextPreset]_vars

\* ---------------------------------------------------- classifier machine
InitClassify ==
    /\ entry = EmptyEntry("", "")
    /\ program = <<>>
    /\ preset = EmptyEntry("", "")
    /\ op = "idle"
    /\ parameters = <<>>
    /\ before = entry
    /\ result = <<>>
    /\ param \in AllParamIds
    /\ skel = <<>>
    /\ stack = <<>>

\* The seven predicates applied to one id, in the order add_parameters
\* tries them.
Classify ==
    /\ op = "idle"
    /\ \E p \in AllParamIds :
        /\ op' = "classify"
        /\ param' = p
        /\ result' = <<is_blend(p), is_float(p), is_bool(p), is_vector(p),
                       is_rasterizer(p), is_sampler(p), is_texture(p)>>
        /\ UNCHANGED <<stack, skel, entry, program, preset, parameters, before>>

\* default_texture applied to one id.
DefaultTexture ==
    /\ op = "idle"
    /\ \E p \in AllParamIds :
        /\ op' = "default_texture"
        /\ param' = p
        /\ result' = <<default_texture(p)>>
        /\ UNCHANGED <<stack, skel, entry, program, preset, parameters, before>>

NextClassify == Classify \/ DefaultTexture \/ Return

SpecClassify == InitClassify /\ [][NextClassify]_vars

\* ------------------------------------------------------- removal machine
\* remove_parameters alone, on entries whose floats and booleans may hold
\* an id several times with different values and ids of other families.
ValuedParams ==
    {<<"floats", ParamId("Diffuse", 0), "0.4">>,
     <<"floats", ParamId("CustomFloat", 0), "0.4">>,
     <<"floats", ParamId("CustomFloat", 0), "0.0">>,
     <<"floats", ParamId("CustomBoolean", 0), "0.4">>,
     <<"booleans", ParamId("CustomBoolean", 0), "true">>}

RECURSIVE StoredValued(_, _)
\* The entry holding the (collection, id, value) triples of ps, in that order.
StoredValued(e, ps) ==
    IF ps = <<>> THEN e
    ELSE LET c == Head(ps)[1]
             x == Param(Head(ps)[2], Head(ps)[3])
         IN StoredValued([e EXCEPT ![c] = Push(@, x)], Tail(ps))

ValuedEntries ==
    {StoredValued(EmptyEntry("material", "shader"), ps) :
         ps \in SeqsUpTo(ValuedParams, MaxStored)}

InitRemove ==
    /\ entry \in ValuedEntries
    /\ program = <<>>
    /\ preset = EmptyEntry("", "")
    /\ op = "idle"
    /\ parameters = <<>>
    /\ before = entry
    /\ result = <<>>
    /\ param = NoParam
    /\ skel = <<>>
    /\ stack = <<>>

NextRemove == RemoveParameters \/ Return

SpecRemove == InitRemove /\ [][NextRemove]_vars

\* --------------------------------------------------------- bone machine
\* BoneData: the name and the Option<usize> parent index of a bone, None as
\* <<>> and Some(i) as <<i>>, i counting from 0 as in the code.  The fields
\* that move_bone clones along with the name are left out.
BoneData(name, parent_index) == [name |-> name, parent_index |-> parent_index]

\* slice.rotate_left(1) and slice.rotate_right(1), nothing for an empty slice.
RotateLeft(s) == IF s = <<>> THEN s ELSE Tail(s) \o <<Head(s)>>

RotateRight(s) ==
    IF s = <<>> THEN s ELSE <<s[Len(s)]>> \o SubSeq(s, 1, Len(s) - 1)

\* egui_dnd::utils::shift_vec(from, to, vec): the item at from goes in front
\* of the item that was at to; vec[from..to] rotates left for from <= to,
\* vec[to..=from] rotates right otherwise.  Indices count from 0.
ShiftVec(from, to, v) ==
    IF from <= to
    THEN SubSeq(v, 1, from) \o RotateLeft(SubSeq(v, from + 1, to))
             \o SubSeq(v, to + 1, Len(v))
    ELSE SubSeq(v, 1, to) \o RotateRight(SubSeq(v, to + 1, from + 1))
             \o SubSeq(v, from + 2, Len(v))

\* position counting from 1.
PositionOf_FromOne(v, p) ==
    IF \E i \in 1..Len(v) : v[i] = p
    THEN <<CHOOSE i \in 1..Len(v) : v[i] = p /\ \A j \in 1..(i - 1) : v[j] # p>>
    ELSE <<>>

\* iter().position(|new_i| *new_i == p) as an Option<usize>.
PositionOf(v, p) ==
    IF \E i \in 1..Len(v) : v[i] = p
    THEN <<(CHOOSE i \in 1..Len(v) : v[i] = p /\ \A j \in 1..(i - 1) : v[j] # p) - 1>>
    ELSE <<>>

\* move_bone copying parent_index as it is.
move_bone_KeepParents(from, to, bones) ==
    LET new_bone_indices ==
            ShiftVec(from, to, [i \in 1..Len(bones) |-> i - 1])
    IN [k \in 1..Len(bones) |-> bones[new_bone_indices[k] + 1]]

move_bone(from, to, bones) ==
    LET new_bone_indices ==
            ShiftVec(from, to, [i \in 1..Len(bones) |-> i - 1])
    IN [k \in 1..Len(bones) |->
           LET bone == bones[new_bone_indices[k] + 1]
           IN BoneData(bone.name,
                       IF bone.parent_index = <<>> THEN <<>>
                       ELSE PositionOf(new_bone_indices, bone.parent_index[1]))]

BoneNames == {"a", "b"}

\* None, and Some(i) for indices that a list of MaxBones bones has; in a
\* shorter list the larger ones designate no bone.
ParentIndices == {<<>>} \cup {<<i>> : i \in 0..(MaxBones - 1)}

BoneLists ==
    SeqsUpTo({BoneData(n, p) : n \in BoneNames, p \in ParentIndices}, MaxBones)

InitSkel ==
    /\ entry = EmptyEntry("", "")
    /\ program = <<>>
    /\ preset = EmptyEntry("", "")
    /\ op = "idle"
    /\ parameters = <<>>
    /\ before = entry
    /\ result = <<>>
    /\ param = NoParam
    /\ skel \in BoneLists
    /\ stack = <<>>

\* A completed drag in edit_bones_list: from is the index of the dragged
\* item, to an index from 0 to the length of the list; shift_vec panics on
\* any other pair.  The record of the call keeps the drag in parameters and
\* the bones before it in result.
MoveBone ==
    /\ op = "idle"
    /\ \E from \in 0..(Len(skel) - 1), to \in 0..Len(skel) :
        /\ op' = "move_bone"
        /\ parameters' = <<from, to>>
        /\ result' = skel
        /\ skel' = move_bone(from, to, skel)
        /\ UNCHANGED <<stack, entry, program, preset, before, param>>

NextSkel == MoveBone \/ Return

SpecSkel == InitSkel /\ [][NextSkel]_vars

\* ------------------------------------------------------- order machine
\* The sort key with unmatched bones sent to the front (unwrap_or(0)).
SkelKey_UnwrapOrZero(reference, o) ==
    IF \E i \in 1..Len(reference) : reference[i].name = o.name
    THEN (CHOOSE i \in 1..Len(reference) :
              /\ reference[i].name = o.name
              /\ \A j \in 1..(i - 1) : reference[j].name # o.name) - 1
    ELSE 0

\* The sort key of match_skel_order:
\* reference.bones.iter().position(|r| r.name == o.name)
\*     .unwrap_or(reference.bones.len())
SkelKey(reference, o) ==
    IF \E i \in 1..Len(reference) : reference[i].name = o.name
    THEN (CHOOSE i \in 1..Len(reference) :
              /\ reference[i].name = o.name
              /\ \A j \in 1..(i - 1) : reference[j].name # o.name) - 1
    ELSE Len(reference)

\* One insertion of the stable sort: x goes behind the elements whose key is
\* not larger.
InsertBone(s, x, reference) ==
    SelectSeq(s, LAMBDA b : SkelKey(reference, b) <= SkelKey(reference, x))
        \o <<x>>
        \o SelectSeq(s, LAMBDA b : SkelKey(reference, b) > SkelKey(reference, x))

RECURSIVE match_skel_order(_, _)
\* skel.bones.sort_by_key(..): a stable sort that moves the BoneData values
\* as they are.
match_skel_order(bones, reference) ==
    IF bones = <<>> THEN <<>>
    ELSE InsertBone(match_skel_order(SubSeq(bones, 1, Len(bones) - 1), reference),
                    bones[Len(bones)], reference)

\* The bones of a reference skeleton; match_skel_order reads their names.
ReferenceLists ==
    SeqsUpTo({BoneData(n, <<>>) : n \in BoneNames}, MaxBones)

\* "Match reference order" of skel_editor: the record of the call keeps the
\* reference bones in parameters and the bones before it in result.
MatchSkelOrder ==
    /\ op = "idle"
    /\ \E reference \in ReferenceLists :
        /\ op' = "match_skel_order"
        /\ parameters' = reference
        /\ result' = skel
        /\ skel' = match_skel_order(skel, reference)
        /\ UNCHANGED <<stack, entry, program, preset, before, param>>

NextOrder == MatchSkelOrder \/ Return

SpecOrder == InitSkel /\ [][NextOrder]_vars

\* --------------------------------------------------- hierarchy machine
\* A frame is the loop of edit_bones_hierarchy (root <<>>) or of one call of
\* display_bones_recursive (root <<root_index>>): i is the index of the bone
\* its iterator yields next.
Frame(root, i) == [root |-> root, i |-> i]

\* The filter of the loop with the test of edit_bones_hierarchy left out:
\* every bone is displayed as a root.
Displays_EveryRoot(frame, bone) ==
    frame.root = <<>> \/ bone.parent_index = frame.root

\* The bones a loop displays: bone.parent_index.is_none() in
\* edit_bones_hierarchy, b.parent_index == Some(root_index) in
\* display_bones_recursive.
Displays(frame, bone) == bone.parent_index = frame.root

\* Frames the thread's stack has room for.
MaxStack == MaxBones + 2

Top == stack[Len(stack)]

\* Bone lists for the hierarchy view; display_bones_recursive reads the
\* names only to label the headers.
HierarchyLists ==
    SeqsUpTo({BoneData("a", p) : p \in ParentIndices}, MaxBones)

InitHierarchy ==
    /\ entry = EmptyEntry("", "")
    /\ program = <<>>
    /\ preset = EmptyEntry("", "")
    /\ op = "idle"
    /\ parameters = <<>>
    /\ before = entry
    /\ result = <<>>
    /\ param = NoParam
    /\ skel \in HierarchyLists
    /\ stack = <<>>

\* edit_bones_hierarchy is called: its loop starts at the first bone.  The
\* indices of the bones displayed are collected in result.
EditBonesHierarchy ==
    /\ op = "idle"
    /\ op' = "edit_bones_hierarchy"
    /\ stack' = <<Frame(<<>>, 0)>>
    /\ result' = <<>>
    /\ UNCHANGED <<entry, program, preset, parameters, before, param, skel>>

\* The loop of the innermost frame yields a bone it displays:
\* display_bones_recursive is called for it, and the body of its header runs
\* the loop over its children unless the header is collapsed.
DisplayBone ==
    /\ op = "edit_bones_hierarchy"
    /\ stack # <<>>
    /\ Top.i < Len(skel)
    /\ Displays(Top, skel[Top.i + 1])
    /\ Len(stack) < MaxStack
    /\ \E open \in BOOLEAN :
        stack' = [stack EXCEPT ![Len(stack)].i = @ + 1]
                     \o (IF open THEN <<Frame(<<Top.i>>, 0)>> ELSE <<>>)
    /\ result' = Append(result, Top.i)
    /\ UNCHANGED <<entry, program, preset, op, parameters, before, param, skel>>

\* The loop of the innermost frame passes over a bone it does not display.
SkipBone ==
    /\ op = "edit_bones_hierarchy"
    /\ stack # <<>>
    /\ Top.i < Len(skel)
    /\ ~Displays(Top, skel[Top.i + 1])
    /\ stack' = [stack EXCEPT ![Len(stack)].i = @ + 1]
    /\ UNCHANGED <<entry, program, preset, op, parameters, before, result,
                   param, skel>>

\* The loop of the innermost frame is over and the call returns.
EndLoop ==
    /\ op = "edit_bones_hierarchy"
    /\ stack # <<>>
    /\ Top.i = Len(skel)
    /\ stack' = SubSeq(stack, 1, Len(stack) - 1)
    /\ UNCHANGED <<entry, program, preset, op, parameters, before, result,
                   param, skel>>

NextHierarchy ==
    \/ EditBonesHierarchy
    \/ DisplayBone
    \/ SkipBone
    \/ EndLoop
    \/ Return

\* The user interface thread keeps running the call it is in.
SpecHierarchy ==
    /\ InitHierarchy
    /\ [][NextHierarchy]_vars
    /\ WF_vars(DisplayBone \/ SkipBone \/ EndLoop)

\* ================================================================ claims
\* The calls that end with the seven sorts.
Mutating ==
    {"add_parameters", "remove_parameters", "add_missing", "remove_unused"}

Adding == {"add_parameters", "add_missing"}

Removing == {"remove_parameters", "remove_unused"}

StrictlyAscending(s) ==
    \A i \in 1..(Len(s) - 1) : AsU64(s[i].param_id) < AsU64(s[i + 1].param_id)

Ascending(s) ==
    \A i \in 1..(Len(s) - 1) : AsU64(s[i].param_id) <= AsU64(s[i + 1].param_id)

\* Number of positions of s that hold x.
Count(s, x) == Cardinality({i \in 1..Len(s) : s[i] = x})

\* The ids of a family, by the collection that holds the family.
FamilyIds(c) ==
    CASE c = "blend_states" -> BlendIds
      [] c = "floats" -> FloatIds
      [] c = "booleans" -> BoolIds
      [] c = "vectors" -> VectorIds
      [] c = "rasterizer_states" -> RasterizerIds
      [] c = "samplers" -> SamplerIds
      [] c = "textures" -> TextureIds

RecognisedIds == UNION {FamilyIds(c) : c \in Collections}

\* The ids held by any of the seven collections of e.
HeldIds(e) ==
    UNION {{e[c][i].param_id : i \in 1..Len(e[c])} : c \in Collections}

\* No collection of e holds an id twice.
UniqueIds(e) ==
    \A c \in Collections :
        \A i, j \in 1..Len(e[c]) :
            e[c][i].param_id = e[c][j].param_id => i = j

\* C1 (as stated): when add_parameters or remove_parameters returns, each of
\* the seven collections is sorted in strictly ascending order of the numeric
\* ParamId: no two neighbouring elements have equal or decreasing ids.
C1_StrictlyAscending ==
    op \in Mutating => \A c \in Collections : StrictlyAscending(entry[c])

\* C1 (amended): when add_parameters or remove_parameters returns, each of
\* the seven collections is sorted in ascending order of the numeric ParamId:
\* no element is followed by one with a smaller id, while neighbouring
\* elements may have equal ids.
C1_Ascending ==
    op \in Mutating => \A c \in Collections : Ascending(entry[c])

\* An added float was sorted in front of the float the entry already held.
C1_Witness ==
    /\ op = "add_parameters"
    /\ Len(before.floats) = 1
    /\ Len(entry.floats) = 2
    /\ entry.floats[2] = before.floats[1]
    /\ entry.floats[1].param_id # entry.floats[2].param_id

\* C2 (as stated): for every shader parameter list over the whole ParamId
\* space, after add_parameters(entry, missing_parameters(entry, shader)) the
\* list missing_parameters(entry, shader) is empty.
C2_MissingEmptyAfterAdd ==
    op = "add_missing" => missing_parameters(entry, program) = <<>>

\* C2 (amended): for every shader parameter list whose ids all belong to one
\* of the seven families, after add_parameters(entry,
\* missing_parameters(entry, shader)) the list missing_parameters(entry,
\* shader) is empty; an id of no family that the entry does not hold stays
\* missing.
C2_MissingEmptyAfterAddRecognised ==
    op = "add_missing" =>
        /\ (\A i \in 1..Len(program) : program[i] \in RecognisedIds)
               => missing_parameters(entry, program) = <<>>
        /\ \A i \in 1..Len(program) :
               Contains(missing_parameters(entry, program), program[i])
                   => program[i] \notin RecognisedIds

\* Missing parameters of recognised families were added.
C2_Witness ==
    /\ op = "add_missing"
    /\ Len(parameters) = 2
    /\ \A i \in 1..Len(program) : program[i] \in RecognisedIds
    /\ Size(before) < Size(entry)

\* C3: after remove_parameters(entry, unused_parameters(entry, shader)) the
\* list unused_parameters(entry, shader) is empty, also for entries in which
\* an id occurs more than once or sits in a collection of another family.
C3_UnusedEmptyAfterRemove ==
    op = "remove_unused" => unused_parameters(entry, program) = <<>>

\* An unused id held twice, once of them outside the collection of its
\* family, was removed.
C3_Witness ==
    /\ op = "remove_unused"
    /\ Len(result) = 2
    /\ result[1] = result[2]
    /\ \E c \in Collections :
           /\ Len(before[c]) = 1
           /\ before[c][1].param_id \notin FamilyIds(c)

\* C4: missing_parameters returns exactly the subsequence of the shader's
\* list, in the shader's order and keeping repeated ids, of the ids that are
\* in none of the seven collections of the entry.
C4_MissingIsSubsequence ==
    op = "missing_parameters" =>
        result = SelectSeq(program, LAMBDA id : id \notin HeldIds(before))

\* Of a held id and an id the entry lacks, the second alone is returned.
C4_Witness ==
    /\ op = "missing_parameters"
    /\ Len(program) = 2
    /\ program[1] \in HeldIds(before)
    /\ result = <<program[2]>>

\* The unused ids of one collection, in the order of the collection.
UnusedOf(s, prog) ==
    SelectSeq(Ids(s), LAMBDA id : \A i \in 1..Len(prog) : prog[i] # id)

\* C5 (as stated): unused_parameters returns the ids present in the entry
\* and absent from the shader's list, scanning the families in the order
\* blend, float, bool, vector, texture, sampler, rasterizer.
C5_UnusedBlendFirst ==
    op = "unused_parameters" =>
        result = UnusedOf(before.blend_states, program)
                     \o UnusedOf(before.floats, program)
                     \o UnusedOf(before.booleans, program)
                     \o UnusedOf(before.vectors, program)
                     \o UnusedOf(before.textures, program)
                     \o UnusedOf(before.samplers, program)
                     \o UnusedOf(before.rasterizer_states, program)

\* C5 (amended): unused_parameters returns the ids present in the entry and
\* absent from the shader's list, scanning the collections in the order bool,
\* float, vector, texture, sampler, blend, rasterizer and each collection in
\* its current order.
C5_UnusedBoolFirst ==
    op = "unused_parameters" =>
        result = UnusedOf(before.booleans, program)
                     \o UnusedOf(before.floats, program)
                     \o UnusedOf(before.vectors, program)
                     \o UnusedOf(before.textures, program)
                     \o UnusedOf(before.samplers, program)
                     \o UnusedOf(before.blend_states, program)
                     \o UnusedOf(before.rasterizer_states, program)

\* An unused blend state and an unused boolean are both reported.
C5_Witness ==
    /\ op = "unused_parameters"
    /\ Len(before.blend_states) = 1
    /\ Len(before.booleans) = 1
    /\ Len(result) = 2

\* C6: apply_preset returns the material label of the entry and the shader
\* label, blend states, floats, booleans, vectors, rasterizer states and
\* samplers of the preset.
C6_PresetFields ==
    op = "apply_preset" =>
        /\ entry.material_label = before.material_label
        /\ entry.shader_label = preset.shader_label
        /\ \A c \in Collections \ {"textures"} : entry[c] = preset[c]

\* A preset was applied to an entry with parameters of its own that the
\* preset does not have.
C6_Witness ==
    /\ op = "apply_preset"
    /\ before.shader_label # preset.shader_label
    /\ before.material_label # preset.material_label
    /\ before.floats # <<>>
    /\ preset.floats # <<>>
    /\ before.floats # preset.floats

\* The paths an entry holds for a texture id.
PathsOf(e, id) ==
    {e.textures[j].data :
         j \in {k \in 1..Len(e.textures) : e.textures[k].param_id = id}}

\* C7: the textures of apply_preset(entry, preset) have the length and the
\* id sequence of preset.textures; the element for id X carries the path of
\* the first texture of the entry with id X when there is one, otherwise
\* default_texture(X); a path only the preset holds is not in the result.
C7_PresetTextures ==
    op = "apply_preset" =>
        /\ Len(entry.textures) = Len(preset.textures)
        /\ \A i \in 1..Len(preset.textures) :
               LET X == preset.textures[i].param_id
                   first == {j \in 1..Len(before.textures) :
                                 /\ before.textures[j].param_id = X
                                 /\ \A k \in 1..(j - 1) :
                                        before.textures[k].param_id # X}
               IN /\ entry.textures[i].param_id = X
                  /\ \A j \in first :
                         entry.textures[i].data = before.textures[j].data
                  /\ first = {} =>
                         entry.textures[i].data = default_texture(X)
                  /\ entry.textures[i].data = preset.textures[i].data =>
                         \/ preset.textures[i].data \in PathsOf(before, X)
                         \/ preset.textures[i].data = default_texture(X)

\* One texture of the preset keeps the first of two paths of the entry,
\* another one gets its default, and a texture of the entry is dropped.
C7_Witness ==
    /\ op = "apply_preset"
    /\ Len(preset.textures) = 2
    /\ Len(before.textures) = 2
    /\ before.textures[1].param_id = before.textures[2].param_id
    /\ before.textures[1].data # before.textures[2].data
    /\ preset.textures[1].param_id = before.textures[1].param_id
    /\ preset.textures[2].param_id = ParamId("Texture", 4)
    /\ entry.textures[2].data = default_texture(ParamId("Texture", 4))

\* C8: the seven predicates are pairwise disjoint, and every id of the
\* families BlendState0..10, RasterizerState0..10, CustomFloat0..19,
\* CustomBoolean0..19, CustomVector0..63, Sampler0..19, Texture0..19
\* satisfies exactly the predicate of its own family.
C8_Partition ==
    op = "classify" =>
        /\ Cardinality({i \in 1..7 : result[i]}) <= 1
        /\ param \in BlendIds => result[1]
        /\ param \in FloatIds => result[2]
        /\ param \in BoolIds => result[3]
        /\ param \in VectorIds => result[4]
        /\ param \in RasterizerIds => result[5]
        /\ param \in SamplerIds => result[6]
        /\ param \in TextureIds => result[7]

\* The last vector id was classified as a vector.
C8_Witness ==
    /\ op = "classify"
    /\ param = ParamId("CustomVector", 63)
    /\ result[4]

\* The default value the family of collection c gives to id.
FamilyDefault(c, id) ==
    CASE c = "blend_states" -> BlendStateDataDefault
      [] c = "floats" -> "0.0"
      [] c = "booleans" -> "false"
      [] c = "vectors" -> "Vector4(0.0, 0.0, 0.0, 0.0)"
      [] c = "rasterizer_states" -> RasterizerStateDataDefault
      [] c = "samplers" -> SamplerDataDefault
      [] c = "textures" -> default_texture(id)

\* Number of occurrences in ids of the ids of the set S.
Occurrences(ids, S) == Cardinality({i \in 1..Len(ids) : ids[i] \in S})

\* C9: for each occurrence of a recognised id in ids, add_parameters adds
\* exactly one pair (id, default of the family) to the collection of the
\* family of the id and to no other collection; the elements the entry held
\* keep their values.
C9_AddsDefaults ==
    op \in Adding =>
        \A c \in Collections :
            /\ Len(entry[c]) = Len(before[c]) + Occurrences(parameters, FamilyIds(c))
            /\ \A x \in {entry[c][i] : i \in 1..Len(entry[c])}
                        \cup {before[c][i] : i \in 1..Len(before[c])} :
                   Count(entry[c], x) =
                       Count(before[c], x)
                           + (IF /\ x.param_id \in FamilyIds(c)
                                 /\ x.data = FamilyDefault(c, x.param_id)
                              THEN Occurrences(parameters, {x.param_id})
                              ELSE 0)

\* A texture with a default path of its own was added to an entry that
\* holds a texture, which kept its path.
C9_Witness ==
    /\ op = "add_parameters"
    /\ parameters = <<ParamId("Texture", 4)>>
    /\ before.textures = <<Param(ParamId("Texture", 4), "a")>>
    /\ entry.textures =
           <<Param(ParamId("Texture", 4), "a"),
             Param(ParamId("Texture", 4),
                   "/common/shader/sfxpbs/fighter/default_normal")>>

\* C10 (as stated): a collection holds every ParamId at most once after any
\* add_parameters or remove_parameters call on an entry of which this was
\* true, whatever the id list.
C10_UniqueIdsKept ==
    (op \in Mutating /\ UniqueIds(before)) => UniqueIds(entry)

\* C10 (amended): a collection holds every ParamId at most once after any
\* remove_parameters call on an entry of which this was true, and after an
\* add_parameters call on such an entry when the id list repeats no
\* recognised id and names no id that the collection of its family already
\* holds; the sort removes no duplicate.
C10_UniqueIdsKeptDistinct ==
    /\ (op \in Removing /\ UniqueIds(before)) => UniqueIds(entry)
    /\ (op \in Adding /\ UniqueIds(before)) =>
           (UniqueIds(entry) <=>
                /\ \A i, j \in 1..Len(parameters) :
                       (parameters[i] = parameters[j]
                            /\ parameters[i] \in RecognisedIds) => i = j
                /\ \A c \in Collections :
                       \A i \in 1..Len(before[c]) :
                           before[c][i].param_id \in FamilyIds(c) =>
                               ~Contains(parameters, before[c][i].param_id))

\* An id was added to an entry that holds it in the collection of another
\* family, and every collection still holds each id once.
C10_Witness ==
    /\ op = "add_parameters"
    /\ UniqueIds(before)
    /\ UniqueIds(entry)
    /\ Len(parameters) = 1
    /\ parameters[1] \in HeldIds(before)
    /\ Size(entry) = Size(before) + 1

\* C11: an id given to add_parameters that satisfies none of the seven
\* predicates is skipped: nothing is added for it, and the call returns the
\* entry it returns for the list without the ids of no family.
C11_UnrecognisedSkipped ==
    op = "add_parameters" =>
        /\ Size(entry) = Size(before) + Occurrences(parameters, RecognisedIds)
        /\ entry = add_parameters(before,
                       SelectSeq(parameters, LAMBDA id : id \in RecognisedIds))

\* An id of no family came first in the list and the float behind it was
\* added.
C11_Witness ==
    /\ op = "add_parameters"
    /\ parameters = <<ParamId("Diffuse", 0), ParamId("CustomFloat", 0)>>
    /\ Size(before) = 0
    /\ entry.floats = <<Param(ParamId("CustomFloat", 0), "0.0")>>
    /\ Size(entry) = 1

\* C12: an id given to remove_parameters that none of the collections of the
\* entry holds is ignored: nothing is removed for it, and every collection
\* is the one the call returns for the list without the ids the entry does
\* not hold; with only such ids each collection keeps its (id, value) pairs.
C12_AbsentIgnored ==
    op = "remove_parameters" =>
        /\ Size(entry) >= Size(before) - Occurrences(parameters, HeldIds(before))
        /\ entry = remove_parameters(before,
                       SelectSeq(parameters,
                                 LAMBDA id : id \in HeldIds(before)))
        /\ Occurrences(parameters, HeldIds(before)) = 0 =>
               \A c \in Collections :
                   \A x \in {before[c][i] : i \in 1..Len(before[c])} :
                       Count(entry[c], x) = Count(before[c], x)

\* An id the entry lacks came first in the list; only the held id behind it
\* was removed.
C12_Witness ==
    /\ op = "remove_parameters"
    /\ Len(parameters) = 2
    /\ parameters[1] \notin HeldIds(before)
    /\ parameters[2] \in HeldIds(before)
    /\ Size(before) = 2
    /\ Size(entry) = 1
    /\ before.textures # <<>>

\* C13: for a shader that requires no parameter, unused_parameters returns
\* one id per element of the entry (as many ids as elements, each id as
\* often as the collections hold it), and remove_parameters with that list
\* leaves all seven collections empty.
C13_EmptyShaderRemovesAll ==
    (op = "remove_unused" /\ program = <<>>) =>
        /\ Len(result) = Size(before)
        /\ result = ChainedIds(before)
        /\ \A id \in HeldIds(before) :
               Occurrences(result, {id}) = Occurrences(ChainedIds(before), {id})
        /\ \A c \in Collections : entry[c] = <<>>

\* Two elements were stored, one of them in a collection of another family.
C13_Witness ==
    /\ op = "remove_unused"
    /\ program = <<>>
    /\ Size(before) = 2
    /\ Len(before.floats) = 1
    /\ before.floats[1].param_id = ParamId("CustomBoolean", 0)
    /\ Len(result) = 2
    /\ Size(entry) = 0

\* C14: missing_parameters and unused_parameters only query: after either
\* call the entry is the entry the call was given, and asking again with the
\* entry and the shader's list as the call left them gives the same answer.
C14_QueriesOnly ==
    /\ op = "missing_parameters" =>
           /\ entry = before
           /\ result = missing_parameters(entry, program)
    /\ op = "unused_parameters" =>
           /\ entry = before
           /\ result = unused_parameters(entry, program)

\* unused_parameters reported an element of an entry that it left in place.
C14_Witness ==
    /\ op = "unused_parameters"
    /\ Size(before) = 2
    /\ Len(result) = 1
    /\ Size(entry) = 2
    /\ program # <<>>

\* C15: add_parameters and remove_parameters leave material_label and
\* shader_label of the entry as they were before the call.
C15_LabelsKept ==
    op \in {"add_parameters", "remove_parameters"} =>
        /\ entry.material_label = before.material_label
        /\ entry.shader_label = before.shader_label

\* A call that changed the collections of a labelled entry.
C15_Witness ==
    /\ op = "add_parameters"
    /\ Size(entry) = Size(before) + 1
    /\ before.material_label = "material"
    /\ entry.material_label = "material"
    /\ entry.shader_label = "shader"

\* C16: default_texture returns "#replace_cubemap" for Texture2, Texture7
\* and Texture8, the fighter default_normal path for Texture4, the fighter
\* default_params path for Texture6, the default_black path for Texture5,
\* Texture9 and Texture14, and the default_white path for every other id,
\* ids of other families included.
C16_DefaultTextureTable ==
    op = "default_texture" =>
        /\ Len(result) = 1
        /\ (param[1] = "Texture" /\ param[2] \in {2, 7, 8}) <=>
               result[1] = "#replace_cubemap"
        /\ (param[1] = "Texture" /\ param[2] = 4) <=>
               result[1] = "/common/shader/sfxpbs/fighter/default_normal"
        /\ (param[1] = "Texture" /\ param[2] = 6) <=>
               result[1] = "/common/shader/sfxpbs/fighter/default_params"
        /\ (param[1] = "Texture" /\ param[2] \in {5, 9, 14}) <=>
               result[1] = "/common/shader/sfxpbs/default_black"
        /\ (param[1] # "Texture" \/ param[2] \notin {2, 4, 5, 6, 7, 8, 9, 14}) <=>
               result[1] = "/common/shader/sfxpbs/default_white"

\* The last of the ids with a path of its own.
C16_Witness ==
    /\ op = "default_texture"
    /\ param = ParamId("Texture", 14)
    /\ result = <<"/common/shader/sfxpbs/default_black">>

\* C17: default_material() always returns the same entry: label
\* NEW_MATERIAL, shader label SFX_PBS_0100000008008269_opaque, BlendState0,
\* CustomFloat8, CustomBoolean1, 3 and 4 all true, CustomVector0 all zeros
\* and CustomVector13, 14 and 8 all ones, RasterizerState0, Sampler0, 4, 6
\* and 7, and Texture0, 4, 6 and 7 each with default_texture of its own id.
C17_DefaultMaterial ==
    op = "default_material" =>
        /\ entry.material_label = "NEW_MATERIAL"
        /\ entry.shader_label = "SFX_PBS_0100000008008269_opaque"
        /\ Ids(entry.blend_states) = <<ParamId("BlendState", 0)>>
        /\ Ids(entry.floats) = <<ParamId("CustomFloat", 8)>>
        /\ Ids(entry.booleans) =
               <<ParamId("CustomBoolean", 1), ParamId("CustomBoolean", 3),
                 ParamId("CustomBoolean", 4)>>
        /\ \A i \in 1..3 : entry.booleans[i].data = "true"
        /\ Ids(entry.vectors) =
               <<ParamId("CustomVector", 0), ParamId("CustomVector", 13),
                 ParamId("CustomVector", 14), ParamId("CustomVector", 8)>>
        /\ entry.vectors[1].data = "Vector4(0.0, 0.0, 0.0, 0.0)"
        /\ \A i \in 2..4 : entry.vectors[i].data = "Vector4(1.0, 1.0, 1.0, 1.0)"
        /\ Ids(entry.rasterizer_states) = <<ParamId("RasterizerState", 0)>>
        /\ Ids(entry.samplers) =
               <<ParamId("Sampler", 0), ParamId("Sampler", 4),
                 ParamId("Sampler", 6), ParamId("Sampler", 7)>>
        /\ Ids(entry.textures) =
               <<ParamId("Texture", 0), ParamId("Texture", 4),
                 ParamId("Texture", 6), ParamId("Texture", 7)>>
        /\ entry.textures[1].data = "/common/shader/sfxpbs/default_white"
        /\ entry.textures[2].data = "/common/shader/sfxpbs/fighter/default_normal"
        /\ entry.textures[3].data = "/common/shader/sfxpbs/fighter/default_params"
        /\ entry.textures[4].data = "#replace_cubemap"
        /\ \A i \in 1..4 :
               entry.textures[i].data = default_texture(entry.textures[i].param_id)

\* The new material replaced an entry that held other parameters.
C17_Witness ==
    /\ op = "default_material"
    /\ Size(before) = 2
    /\ before.material_label = "material"
    /\ Size(entry) = 18
    /\ entry.vectors[4].param_id = ParamId("CustomVector", 8)

\* The order in which the claims have remove_parameters search.
SearchOrder ==
    <<"blend_states", "floats", "booleans", "vectors", "rasterizer_states",
      "samplers", "textures">>

\* Indices of the elements of s with the id.
IndicesOf(s, id) == {i \in 1..Len(s) : s[i].param_id = id}

\* Positions in SearchOrder of the collections of e that hold the id.
Holding(e, id) == {k \in 1..7 : IndicesOf(e[SearchOrder[k]], id) # {}}

Least(S) == CHOOSE n \in S : \A m \in S : n <= m

\* The entry without the first element with the id in the first collection
\* of SearchOrder that holds it, the other elements in their order.
StableRemoveOne(e, id) ==
    IF Holding(e, id) = {} THEN e
    ELSE LET c == SearchOrder[Least(Holding(e, id))]
             i == Least(IndicesOf(e[c], id))
         IN [e EXCEPT ![c] = SubSeq(@, 1, i - 1) \o SubSeq(@, i + 1, Len(@))]

RECURSIVE StableRemoveLoop(_, _)
StableRemoveLoop(e, ids) ==
    IF ids = <<>> THEN e
    ELSE StableRemoveLoop(StableRemoveOne(e, Head(ids)), Tail(ids))

\* All (id, value) pairs of two entries' collections are the same, counted
\* with multiplicity.
SameElements(e1, e2) ==
    \A c \in Collections :
        /\ Len(e1[c]) = Len(e2[c])
        /\ \A i \in 1..Len(e1[c]) : Count(e1[c], e1[c][i]) = Count(e2[c], e1[c][i])

\* C18: for each id occurrence of its list, remove_parameters searches the
\* collections in the order blend, float, bool, vector, rasterizer, sampler,
\* texture and removes exactly one element, the first one with that id in
\* the first collection that holds it; elements with that id in later
\* collections and later in the same collection are kept.
\* The property is one of each pass of the loop: the collections are taken
\* as the passes before it left them.
C18_FirstInSearchOrder ==
    op = "remove_parameters" =>
        /\ \A k \in 1..Len(parameters) :
               SameElements(
                   RemoveLoop(before, SubSeq(parameters, 1, k)),
                   StableRemoveOne(RemoveLoop(before, SubSeq(parameters, 1, k - 1)),
                                   parameters[k]))
        /\ SameElements(entry, RemoveLoop(before, parameters))

\* The floats and the booleans both held CustomBoolean0; the one of the
\* floats went and the one of the booleans stayed.
C18_Witness ==
    /\ op = "remove_parameters"
    /\ parameters = <<ParamId("CustomBoolean", 0)>>
    /\ IndicesOf(before.floats, ParamId("CustomBoolean", 0)) # {}
    /\ IndicesOf(before.booleans, ParamId("CustomBoolean", 0)) # {}
    /\ IndicesOf(entry.floats, ParamId("CustomBoolean", 0)) = {}
    /\ entry.booleans = before.booleans
    /\ Size(entry) = Size(before) - 1

\* Elements of one collection with the same id hold the same value.
SameIdSameValue(e) ==
    \A c \in Collections :
        \A i, j \in 1..Len(e[c]) :
            e[c][i].param_id = e[c][j].param_id => e[c][i] = e[c][j]

\* C19 as stated: for every entry and every id list, remove_parameters
\* returns exactly the entry that an order-preserving removal of the same
\* occurrences followed by the same sort returns, values included.
C19_EqualsStableRemoval ==
    op = "remove_parameters" =>
        entry = SortAll(StableRemoveLoop(before, parameters))

\* C19: for every id list and every entry in which elements of one
\* collection with the same id hold the same value, remove_parameters
\* returns exactly the entry that an order-preserving removal of the same
\* occurrences followed by the same sort returns, values included.
C19_EqualsStableRemovalSameValue ==
    (op = "remove_parameters" /\ SameIdSameValue(before)) =>
        entry = SortAll(StableRemoveLoop(before, parameters))

\* The swap left the floats in another order than the order-preserving
\* removal does, and the sort made the two agree.
C19_Witness ==
    /\ op = "remove_parameters"
    /\ SameIdSameValue(before)
    /\ Len(before.floats) = 3
    /\ Len(parameters) = 1
    /\ RemoveLoop(before, parameters).floats
           # StableRemoveLoop(before, parameters).floats
    /\ Len(entry.floats) = 2
    /\ entry = SortAll(StableRemoveLoop(before, parameters))

\* Bijections of the positions of a list of n elements.
Bijections(n) ==
    {f \in [1..n -> 1..n] : \A i, j \in 1..n : f[i] = f[j] => i = j}

\* C20: for every bone list and every valid drag, the result of move_bone
\* is a permutation of the bones in which every bone still points to the
\* correct parent: a bone whose parent_index designated bone P designates
\* the new position of P, and a bone without a parent still has none.
C20_MoveBoneKeepsParents ==
    op = "move_bone" =>
        /\ Len(skel) = Len(result)
        /\ \E f \in Bijections(Len(result)) :
               \A i \in 1..Len(result) :
                   LET old == result[i]
                       new == skel[f[i]]
                   IN /\ new.name = old.name
                      /\ old.parent_index = <<>> => new.parent_index = <<>>
                      /\ (old.parent_index # <<>>
                              /\ old.parent_index[1] < Len(result)) =>
                             new.parent_index = <<f[old.parent_index[1] + 1] - 1>>

\* The drag of tests::swap_bones_different_indices: the parent moved and the
\* index that designates it followed.
C20_Witness ==
    /\ op = "move_bone"
    /\ parameters = <<0, 2>>
    /\ result = <<BoneData("a", <<>>), BoneData("b", <<0>>)>>
    /\ skel = <<BoneData("b", <<1>>), BoneData("a", <<>>)>>

\* Every parent_index of the list is None or an index of the list.
ValidParents(bones) ==
    \A i \in 1..Len(bones) :
        bones[i].parent_index # <<>> => bones[i].parent_index[1] < Len(bones)

\* C21 as stated: for every bone list and every index i of the list,
\* move_bone(i, i, bones) returns a list equal to bones.
C21_SameIndexIdentity ==
    (op = "move_bone" /\ parameters[1] = parameters[2]) => skel = result

\* C21: for every bone list whose parent_index values are None or indices of
\* the list, and every index i of the list, move_bone(i, i, bones) returns a
\* list equal to bones (same order, names and parent_index values).
C21_SameIndexIdentityValidParents ==
    (op = "move_bone" /\ parameters[1] = parameters[2] /\ ValidParents(result))
        => skel = result

\* The drag of tests::swap_bones_same_indices.
C21_Witness ==
    /\ op = "move_bone"
    /\ parameters = <<0, 0>>
    /\ result = <<BoneData("a", <<>>), BoneData("b", <<0>>)>>
    /\ skel = result

\* The bones of a list whose name some bone of the reference has, and the
\* others, each in the order of the list.
Matched(bones, reference) ==
    SelectSeq(bones,
              LAMBDA b : \E i \in 1..Len(reference) : reference[i].name = b.name)

Unmatched(bones, reference) ==
    SelectSeq(bones,
              LAMBDA b : \A i \in 1..Len(reference) : reference[i].name # b.name)

\* Index of the first bone of the reference with the name.
FirstNamed(reference, name) ==
    Least({i \in 1..Len(reference) : reference[i].name = name})

\* C22: after match_skel_order(skel, reference) the bones whose name occurs
\* in the reference come first, ordered by the position of the first
\* reference bone with that name, and the bones whose name does not occur
\* in the reference follow in their original relative order; with an empty
\* reference the order is unchanged.
C22_ReferenceOrder ==
    op = "match_skel_order" =>
        LET m == Matched(result, parameters)
            u == Unmatched(result, parameters)
        IN /\ Len(skel) = Len(result)
           /\ SubSeq(skel, Len(m) + 1, Len(skel)) = u
           /\ \A i \in 1..Len(m) :
                  \E k \in 1..Len(parameters) : parameters[k].name = skel[i].name
           /\ \A i, j \in 1..Len(m) :
                  i < j => FirstNamed(parameters, skel[i].name)
                               <= FirstNamed(parameters, skel[j].name)
           /\ \A b \in {m[i] : i \in 1..Len(m)} :
                  Count(SubSeq(skel, 1, Len(m)), b) = Count(m, b)
           /\ parameters = <<>> => skel = result

\* A matched bone overtook two unmatched ones, which kept their order.
C22_Witness ==
    /\ op = "match_skel_order"
    /\ parameters = <<BoneData("b", <<>>)>>
    /\ result = <<BoneData("a", <<>>), BoneData("a", <<0>>), BoneData("b", <<>>)>>
    /\ skel = <<BoneData("b", <<>>), BoneData("a", <<>>), BoneData("a", <<0>>)>>

\* C23: match_skel_order keeps the hierarchy: for every skeleton with valid
\* parent indices and every reference, there is a correspondence of the old
\* positions to the new ones that keeps every name, sends the parent of a
\* bone to the parent of its image, and leaves parentless bones parentless.
C23_OrderKeepsParents ==
    (op = "match_skel_order" /\ ValidParents(result)) =>
        /\ Len(skel) = Len(result)
        /\ \E f \in Bijections(Len(result)) :
               \A i \in 1..Len(result) :
                   LET old == result[i]
                       new == skel[f[i]]
                   IN /\ new.name = old.name
                      /\ old.parent_index = <<>> => new.parent_index = <<>>
                      /\ old.parent_index # <<>> =>
                             new.parent_index = <<f[old.parent_index[1] + 1] - 1>>

\* Every collection of e holds only ids of its own family.
OwnFamily(e) ==
    \A c \in Collections :
        \A i \in 1..Len(e[c]) : e[c][i].param_id \in FamilyIds(c)

\* The two orders of the reconciliation, each diagnostic computed on the
\* entry as it is at that step.
AddThenRemove(e, prog) ==
    LET added == add_parameters(e, missing_parameters(e, prog))
    IN remove_parameters(added, unused_parameters(added, prog))

RemoveThenAdd(e, prog) ==
    LET removed == remove_parameters(e, unused_parameters(e, prog))
    IN add_parameters(removed, missing_parameters(removed, prog))

\* C24: the reconciliation steps commute: for every entry whose collections
\* hold each id at most once and only ids of their own family, and every
\* shader list, adding the missing parameters and then removing the unused
\* ones yields the same entry as removing first and adding second.
C24_ReconcileCommutes ==
    /\ (op = "add_missing" /\ UniqueIds(before) /\ OwnFamily(before)) =>
           remove_parameters(entry, unused_parameters(entry, program))
               = RemoveThenAdd(before, program)
    /\ (op = "remove_unused" /\ UniqueIds(before) /\ OwnFamily(before)) =>
           add_parameters(entry, missing_parameters(entry, program))
               = AddThenRemove(before, program)

\* The entry held one parameter the shader does not use and lacked one it
\* requires: both steps change the entry.
C24_Witness ==
    /\ op = "add_missing"
    /\ UniqueIds(before) /\ OwnFamily(before)
    /\ Size(before) = 1
    /\ Len(parameters) = 1
    /\ parameters[1] \in RecognisedIds
    /\ Len(unused_parameters(before, program)) = 1
    /\ Size(entry) = 2
    /\ Size(RemoveThenAdd(before, program)) = 1
    /\ RemoveThenAdd(before, program) # before

\* The ids of a list are distinct.
DistinctIds(ids) == \A i, j \in 1..Len(ids) : ids[i] = ids[j] => i = j

C26_PresetIdempotent ==
    op = "apply_preset" => apply_preset(entry, preset) = entry

\* The preset and the entry both repeated an id, with different paths in the
\* entry, and the preset changed the entry.
C26_Witness ==
    /\ op = "apply_preset"
    /\ Len(preset.textures) = 2
    /\ preset.textures[1].param_id = preset.textures[2].param_id
    /\ Len(before.textures) = 2
    /\ before.textures[1].param_id = preset.textures[1].param_id
    /\ before.textures[2].param_id = preset.textures[1].param_id
    /\ before.textures[1].data # before.textures[2].data
    /\ entry # before
    /\ entry.textures[2].data = before.textures[1].data

\* The vectors of the new material in ascending order of their ids.
AscendingDefaultVectors ==
    <<Param(ParamId("CustomVector", 0), "Vector4(0.0, 0.0, 0.0, 0.0)"),
      Param(ParamId("CustomVector", 8), "Vector4(1.0, 1.0, 1.0, 1.0)"),
      Param(ParamId("CustomVector", 13), "Vector4(1.0, 1.0, 1.0, 1.0)"),
      Param(ParamId("CustomVector", 14), "Vector4(1.0, 1.0, 1.0, 1.0)")>>

\* The last call was made with an empty id list on the new material.
EmptyCallOnDefault ==
    /\ op = "remove_parameters"
    /\ parameters = <<>>
    /\ before.material_label = "NEW_MATERIAL"
    /\ Size(before) = 18
    /\ Ids(before.vectors) =
           <<ParamId("CustomVector", 0), ParamId("CustomVector", 13),
             ParamId("CustomVector", 14), ParamId("CustomVector", 8)>>

\* C27 as stated: the entry returned by default_material() is already in
\* canonical order: each of its seven collections is sorted ascending by
\* ParamId, so add_parameters or remove_parameters called on it with an
\* empty id list returns it unchanged.
C27_DefaultCanonical ==
    /\ op = "default_material" =>
           /\ \A c \in Collections : Ascending(entry[c])
           /\ add_parameters(entry, <<>>) = entry
           /\ remove_parameters(entry, <<>>) = entry
    /\ EmptyCallOnDefault => entry = before

\* C27: the entry returned by default_material() is in canonical order but
\* for its vectors: the six other collections are sorted ascending by
\* ParamId and the vectors are in the order CustomVector0, 13, 14, 8, so
\* add_parameters or remove_parameters called on it with an empty id list
\* returns it with the vectors in the order 0, 8, 13, 14 and everything else
\* unchanged.
C27_DefaultCanonicalButVectors ==
    /\ op = "default_material" =>
           /\ \A c \in Collections \ {"vectors"} : StrictlyAscending(entry[c])
           /\ ~Ascending(entry.vectors)
           /\ add_parameters(entry, <<>>)
                  = [entry EXCEPT !.vectors = AscendingDefaultVectors]
           /\ remove_parameters(entry, <<>>)
                  = [entry EXCEPT !.vectors = AscendingDefaultVectors]
    /\ EmptyCallOnDefault =>
           entry = [before EXCEPT !.vectors = AscendingDefaultVectors]

\* remove_parameters with an empty list moved CustomVector8 of the new
\* material in front of CustomVector13.
C27_Witness ==
    /\ EmptyCallOnDefault
    /\ entry # before
    /\ entry.vectors[2].param_id = ParamId("CustomVector", 8)
    /\ entry.textures = before.textures

\* C28: edit_bones_hierarchy terminates for every bone list, lists whose
\* parent_index values are self-references, form cycles or are out of range
\* included: every call returns, having displayed each bone at most once.
C28_HierarchyTerminates ==
    (op = "edit_bones_hierarchy" /\ stack # <<>>)
        ~> (op = "edit_bones_hierarchy" /\ stack = <<>> /\ DistinctIds(result))

\* The call returned for a list of three bones, one of them its own parent
\* and one without a parent; two bones were shown.
C28_Witness ==
    /\ op = "edit_bones_hierarchy"
    /\ stack = <<>>
    /\ Len(skel) = 3
    /\ \E i \in 1..3 : skel[i].parent_index = <<i - 1>>
    /\ \E i \in 1..3 : skel[i].parent_index = <<>>
    /\ Len(result) = 2

====
